---- MODULE Spec2Model ----
(***************************************************************************)
(* Model of guess_the_number.py: a Streamlit script that is re-executed    *)
(* from top to bottom on every interaction of a player session.  The       *)
(* per-session state lives in st.session_state, the leaderboard in a       *)
(* shared Google Sheet (a list of rows of text cells), and reads of the    *)
(* sheet go through st.cache_data(ttl=30), one cache shared by all         *)
(* sessions.                                                               *)
(*                                                                         *)
(* Text is modelled as a sequence of one-character strings, so that        *)
(* strip(), str(), int() and the string comparison of the sort key are     *)
(* computed, not assumed.                                                  *)
(***************************************************************************)
EXTENDS Integers, Sequences, FiniteSets, TLC

VARIABLES
    session_state,  \* session -> dict (function from key to value) of st.session_state
    difficulty,     \* session -> selected option of the st.radio widget (line 142)
    sheet,          \* the rows of the backing sheet, each a sequence of text cells
    cache,          \* the st.cache_data entry of load_leaderboard(limit=10)
    now,            \* the clock (seconds)
    last_run,       \* the last script run: its session and inputs, what it displayed and drew
    guesses         \* history: session -> accepted non-winning guesses of the current round

vars == <<session_state, difficulty, sheet, cache, now, last_run, guesses>>

-----------------------------------------------------------------------------
(* Bounds of the model *)

\* The Easy range is 1..EasyMax and the Hard range twice that (50 and 100 in the source).
EasyMax == 2
\* The clock stops at MaxTime.
MaxTime == 30
\* The sheet holds at most MaxRows rows, and one more for every session after the
\* first.
MaxRows == 2
\* A session's attempt counter is followed up to AttemptsCap.
AttemptsCap == 11

\* With the clock running a round is followed up to ClockAttempts guesses.
ClockAttempts == 2

\* With two sessions a round is followed up to SharedAttempts guesses.
SharedAttempts == 1

\* A sheet of the store specification starts with up to StoreInitRows rows below
\* its header and grows to StoreMaxRows rows.
StoreInitRows == 3
StoreMaxRows == 4

(* Program constants *)

max_attempts == 10
TTL == 30
TopLimit == 10

HardMax == 2 * EasyMax
TickStep == TTL \div 2

-----------------------------------------------------------------------------
(* Text *)

\* The characters of the model in code-point order.
Alphabet == <<" ", "+", "-", "/", "0", "1", "2", "3", "4", "5", "6", "7", "8", "9",
              "A", "B", "C", "N", "a", "e", "i", "m", "n", "p", "s", "t">>

CodePoint(c) == CHOOSE i \in 1..Len(Alphabet) : Alphabet[i] = c

Digits == <<"0", "1", "2", "3", "4", "5", "6", "7", "8", "9">>

IsDigit(c) == \E i \in 1..10 : Digits[i] = c

DigitVal(c) == (CHOOSE i \in 1..10 : Digits[i] = c) - 1

Whitespace == {" "}

RECURSIVE lstrip(_)
lstrip(s) == IF s # <<>> /\ Head(s) \in Whitespace THEN lstrip(Tail(s)) ELSE s

RECURSIVE rstrip(_)
rstrip(s) ==
    IF s # <<>> /\ s[Len(s)] \in Whitespace THEN rstrip(SubSeq(s, 1, Len(s) - 1)) ELSE s

\* str.strip()
strip(s) == rstrip(lstrip(s))

\* str(n) of a natural number: its decimal digits, no padding.
RECURSIVE str(_)
str(n) == IF n < 10 THEN <<Digits[n + 1]>> ELSE str(n \div 10) \o <<Digits[(n % 10) + 1]>>

RECURSIVE DigitsValue(_)
DigitsValue(s) ==
    IF s = <<>> THEN 0 ELSE 10 * DigitsValue(SubSeq(s, 1, Len(s) - 1)) + DigitVal(s[Len(s)])

AllDigits(s) == s # <<>> /\ \A i \in 1..Len(s) : IsDigit(s[i])

\* int(s): surrounding whitespace and one leading sign are accepted; anything else
\* raises ValueError (ok = FALSE).
int(s) ==
    LET t == strip(s)
        signed == t # <<>> /\ Head(t) \in {"+", "-"}
        body == IF signed THEN Tail(t) ELSE t
    IN  IF AllDigits(body)
        THEN [ok |-> TRUE,
              value |-> IF signed /\ Head(t) = "-" THEN 0 - DigitsValue(body)
                        ELSE DigitsValue(body)]
        ELSE [ok |-> FALSE, value |-> 0]

\* datetime.utcnow().isoformat(timespec="seconds"): a fixed-width, zero-padded text,
\* here the two digits of the clock.
isoformat(t) == <<Digits[((t \div 10) % 10) + 1], Digits[(t % 10) + 1]>>

\* a < b for Python strings: lexicographic by code point.
RECURSIVE StrLess(_, _)
StrLess(a, b) ==
    IF b = <<>> THEN FALSE
    ELSE IF a = <<>> THEN TRUE
    ELSE IF Head(a) # Head(b) THEN CodePoint(Head(a)) < CodePoint(Head(b))
    ELSE StrLess(Tail(a), Tail(b))

-----------------------------------------------------------------------------
(* Dicts *)

EmptyDict == [k \in {} |-> 0]

\* d[k] = v
Put(d, k, v) ==
    IF k \in DOMAIN d THEN [d EXCEPT ![k] = v]
    ELSE [x \in (DOMAIN d) \cup {k} |-> IF x = k THEN v ELSE d[x]]

-----------------------------------------------------------------------------
(* Leaderboard store *)

\* The header row a prepared sheet starts with.
HeaderRow == << <<"n", "a", "m", "e">>,
                <<"a", "t", "t", "e", "m", "p", "t", "s">>,
                <<"t", "i", "m", "e", "s", "t", "a", "m", "p">> >>

\* add_score as it would be if a failing backend call left its row behind.
add_scoreLeavesRow(sh, nm, attempts, t, append_ok) ==
    Append(sh, <<nm, str(attempts), isoformat(t)>>)

\* add_score as it would be if the row were written over the last record.
add_scoreOverwrites(sh, nm, attempts, t, append_ok) ==
    IF ~append_ok THEN sh
    ELSE IF Len(sh) > 1 THEN [sh EXCEPT ![Len(sh)] = <<nm, str(attempts), isoformat(t)>>]
    ELSE Append(sh, <<nm, str(attempts), isoformat(t)>>)

\* add_score: one row [name, str(attempts), ts] is appended after the last row of
\* the sheet; a failing backend call is caught and leaves the sheet as it was.
add_score(sh, nm, attempts, t, append_ok) ==
    IF append_ok THEN Append(sh, <<nm, str(attempts), isoformat(t)>>) ELSE sh

\* Lines 105-113: one row decoded to a record.
DecodeRow(r) ==
    LET attempts_str == IF Len(r) > 1 THEN r[2] ELSE <<"0">>
        parsed == int(attempts_str)
    IN  [name |-> IF Len(r) > 0 THEN r[1] ELSE <<>>,
         attempts |-> IF parsed.ok THEN parsed.value ELSE 0,
         timestamp |-> IF Len(r) > 2 THEN r[3] ELSE <<>>]

\* The sort key (x["attempts"], x["timestamp"]) compared as Python compares tuples.
KeyLess(x, y) ==
    \/ x.attempts < y.attempts
    \/ x.attempts = y.attempts /\ StrLess(x.timestamp, y.timestamp)

\* x inserted into the sorted list s behind every element whose key is not greater.
RECURSIVE InsertSorted(_, _)
InsertSorted(s, x) ==
    IF s = <<>> THEN <<x>>
    ELSE IF KeyLess(x, Head(s)) THEN <<x>> \o s
    ELSE <<Head(s)>> \o InsertSorted(Tail(s), x)

\* sorted(records, key=...): a stable sort.
RECURSIVE sorted(_)
sorted(records) ==
    IF records = <<>> THEN <<>>
    ELSE InsertSorted(sorted(SubSeq(records, 1, Len(records) - 1)), records[Len(records)])

\* lst[:limit] for limit >= 0
Take(lst, limit) == SubSeq(lst, 1, IF limit < Len(lst) THEN limit ELSE Len(lst))

\* rows[1:]
DataRows(rows) == IF Len(rows) <= 1 THEN <<>> ELSE Tail(rows)

\* The body of load_leaderboard as it would be if a row that is short or whose
\* attempts cell is no number made the read fail.
LoadLeaderboardStrict(sh, limit, read_ok) ==
    LET rows == DataRows(sh)
    IN  IF ~read_ok \/ \E i \in 1..Len(rows) : Len(rows[i]) < 3 \/ ~int(rows[i][2]).ok
        THEN <<>>
        ELSE Take(sorted([i \in 1..Len(rows) |-> DecodeRow(rows[i])]), limit)

\* The body of load_leaderboard: what one execution returns.
LoadLeaderboard(sh, limit, read_ok) ==
    IF ~read_ok THEN <<>>
    ELSE LET rows == DataRows(sh)
             records == [i \in 1..Len(rows) |-> DecodeRow(rows[i])]
         IN  Take(sorted(records), limit)

NoCache == [present |-> FALSE, value |-> <<>>, fetchedAt |-> 0]

\* st.cache_data(ttl=30): an entry is served while it is younger than the ttl.
CacheHit(c, t) == c.present /\ t - c.fetchedAt < TTL

\* load_leaderboard(limit=10) through the cache: the entry after the call.
load_leaderboard(c, sh, t, read_ok) ==
    IF CacheHit(c, t) THEN c
    ELSE [present |-> TRUE, value |-> LoadLeaderboard(sh, TopLimit, read_ok), fetchedAt |-> t]

-----------------------------------------------------------------------------
(* Game session: the steps of the script *)

Difficulties == {"Easy", "Hard"}

\* max_num = 50 if "Easy" in difficulty else 100
max_num(diff) == IF diff = "Easy" THEN EasyMax ELSE HardMax

\* Line 146 as it would be if every run reset the session.
DifficultyChangedAlways(ss, mx) == TRUE

\* The condition of line 146.
DifficultyChanged(ss, mx) ==
    "last_max_num" \notin DOMAIN ss \/ ss.last_max_num # mx

\* Lines 146-150 as they would be if a change of difficulty kept the number to
\* guess of the old range.
DifficultyCheckKeepsNumber(fr, mx, d) ==
    IF "last_max_num" \notin DOMAIN fr.ss
    THEN [fr EXCEPT !.ss = Put(Put(Put(Put(@, "number_to_guess", d), "attempts", 0),
                                   "max_attempts", max_attempts), "last_max_num", mx),
                    !.drawn = Append(@, d)]
    ELSE IF fr.ss.last_max_num # mx
    THEN [fr EXCEPT !.ss = Put(Put(@, "attempts", 0), "last_max_num", mx),
                    !.drawn = Append(@, fr.ss.number_to_guess)]
    ELSE fr

\* Lines 146-150; d is the number random.randint returns.
DifficultyCheck(fr, mx, d) ==
    IF DifficultyChanged(fr.ss, mx)
    THEN [fr EXCEPT !.ss = Put(Put(Put(Put(@, "number_to_guess", d), "attempts", 0),
                                   "max_attempts", max_attempts), "last_max_num", mx),
                    !.drawn = Append(@, d)]
    ELSE fr

\* Lines 161-164 as they would be without line 163.
RestartHandlerKeepsCount(fr, d) ==
    [fr EXCEPT !.ss = Put(@, "number_to_guess", d),
               !.msgs = @ \cup {"restarted"},
               !.drawn = Append(@, d)]

\* Lines 161-164.
RestartHandler(fr, d) ==
    [fr EXCEPT !.ss = Put(Put(@, "number_to_guess", d), "attempts", 0),
               !.msgs = @ \cup {"restarted"},
               !.drawn = Append(@, d)]

\* Lines 178-184 as they would be if the name were stored as typed.
WinBranchKeepsName(fr, nm, target, t, d, append_ok) ==
    [fr EXCEPT !.sheet = add_score(@, nm, fr.ss.attempts, t, append_ok),
               !.cache = NoCache,
               !.ss = Put(Put(@, "number_to_guess", d), "attempts", 0),
               !.msgs = @ \cup {"correct"} \cup (IF append_ok THEN {} ELSE {"append_failed"}),
               !.shown = target,
               !.drawn = Append(@, d)]

\* Lines 178-184 as they would be without line 184.
WinBranchKeepsCount(fr, nm, target, t, d, append_ok) ==
    [fr EXCEPT !.sheet = add_score(@, strip(nm), fr.ss.attempts, t, append_ok),
               !.cache = NoCache,
               !.ss = Put(@, "number_to_guess", d),
               !.msgs = @ \cup {"correct"} \cup (IF append_ok THEN {} ELSE {"append_failed"}),
               !.shown = target,
               !.drawn = Append(@, d)]

\* Lines 178-184: the branch of a correct guess; ss already holds the incremented count.
WinBranch(fr, nm, target, t, d, append_ok) ==
    [fr EXCEPT !.sheet = add_score(@, strip(nm), fr.ss.attempts, t, append_ok),
               !.cache = NoCache,
               !.ss = Put(Put(@, "number_to_guess", d), "attempts", 0),
               !.msgs = @ \cup {"correct"} \cup (IF append_ok THEN {} ELSE {"append_failed"}),
               !.shown = target,
               !.drawn = Append(@, d)]

\* Lines 186-188 as they would be with > in place of >=.
ExhaustionCheckLate(fr, g, target) ==
    IF fr.ss.attempts > fr.ss.max_attempts /\ g # target
    THEN [fr EXCEPT !.msgs = @ \cup {"out_of_tries"}, !.shown = target]
    ELSE fr

\* Lines 186-188.
ExhaustionCheck(fr, g, target) ==
    IF fr.ss.attempts >= fr.ss.max_attempts /\ g # target
    THEN [fr EXCEPT !.msgs = @ \cup {"out_of_tries"}, !.shown = target]
    ELSE fr

\* Lines 167-188 as they would be if the guess were counted before the name is
\* looked at.
SubmitHandlerCountsFirst(fr, nm, g, t, d, append_ok) ==
    LET counted == [fr EXCEPT !.ss = Put(@, "attempts", fr.ss.attempts + 1)]
    IN  IF strip(nm) = <<>>
        THEN [counted EXCEPT !.msgs = @ \cup {"name_required"}]
        ELSE LET target == fr.ss.number_to_guess
                 judged == IF g < target THEN [counted EXCEPT !.msgs = @ \cup {"too_low"}]
                           ELSE IF g > target
                           THEN [counted EXCEPT !.msgs = @ \cup {"too_high"}]
                           ELSE WinBranch(counted, nm, target, t, d, append_ok)
             IN  ExhaustionCheck(judged, g, target)

\* Lines 167-188 as they would be with the two comparisons exchanged.
SubmitHandlerSwapped(fr, nm, g, t, d, append_ok) ==
    IF strip(nm) = <<>>
    THEN [fr EXCEPT !.msgs = @ \cup {"name_required"}]
    ELSE LET counted == [fr EXCEPT !.ss = Put(@, "attempts", fr.ss.attempts + 1)]
             target == fr.ss.number_to_guess
             judged == IF g > target THEN [counted EXCEPT !.msgs = @ \cup {"too_low"}]
                       ELSE IF g < target THEN [counted EXCEPT !.msgs = @ \cup {"too_high"}]
                       ELSE WinBranch(counted, nm, target, t, d, append_ok)
         IN  ExhaustionCheck(judged, g, target)

\* Lines 167-188.
SubmitHandler(fr, nm, g, t, d, append_ok) ==
    IF strip(nm) = <<>>
    THEN [fr EXCEPT !.msgs = @ \cup {"name_required"}]
    ELSE LET counted == [fr EXCEPT !.ss = Put(@, "attempts", fr.ss.attempts + 1)]
             target == fr.ss.number_to_guess
             judged == IF g < target THEN [counted EXCEPT !.msgs = @ \cup {"too_low"}]
                       ELSE IF g > target THEN [counted EXCEPT !.msgs = @ \cup {"too_high"}]
                       ELSE WinBranch(counted, nm, target, t, d, append_ok)
         IN  ExhaustionCheck(judged, g, target)

\* Lines 193-199: the leaderboard read at the end of every run.
LeaderboardDisplay(fr, t, read_ok) ==
    [fr EXCEPT !.cache = load_leaderboard(@, fr.sheet, t, read_ok),
               !.msgs = @ \cup (IF ~CacheHit(fr.cache, t) /\ ~read_ok
                                THEN {"read_failed"} ELSE {})]

\* One execution of the script for session_state ss with the widget values nm, diff, g
\* and the button pressed ("none", "restart" or "submit") at time t.
Script(ss, sh, c, nm, diff, g, button, t, d1, d2, append_ok, read_ok) ==
    LET mx == max_num(diff)
        f0 == [ss |-> ss, sheet |-> sh, cache |-> c, msgs |-> {}, shown |-> 0, drawn |-> <<>>]
        f1 == DifficultyCheck(f0, mx, d1)
        f2 == IF button = "restart" THEN RestartHandler(f1, d2)
              ELSE IF button = "submit" THEN SubmitHandler(f1, nm, g, t, d2, append_ok)
              ELSE f1
    IN  LeaderboardDisplay(f2, t, read_ok)

-----------------------------------------------------------------------------
(* The system: player sessions interacting with the page *)

Sessions == {1}

\* Texts a player types into the name field (line 140).
NameInputs == {<<>>, <<" ">>, <<" ", "A", " ">>}

\* The sheet was prepared with a header row.
InitSheets == {<<HeaderRow>>}

NoRun == [session |-> 0, button |-> "none", name |-> <<>>, guess |-> 0,
          msgs |-> {}, shown |-> 0, drawn |-> <<>>]

Started(s) == "last_max_num" \in DOMAIN session_state[s]

Init ==
    /\ session_state = [s \in Sessions |-> EmptyDict]
    /\ difficulty = [s \in Sessions |-> "Easy"]
    /\ sheet \in InitSheets
    /\ cache = NoCache
    /\ now = 0
    /\ last_run = NoRun
    /\ guesses = [s \in Sessions |-> 0]

\* The accepted guess g is the number to guess.
Hits(ss, button, nm, g) ==
    button = "submit" /\ strip(nm) # <<>> /\ g = ss.number_to_guess

\* The accepted guess g is not the number to guess.
Misses(ss, button, nm, g) ==
    button = "submit" /\ strip(nm) # <<>> /\ g # ss.number_to_guess

\* Session s runs the script once with the widget values nm, diff, g.  The
\* environment chooses what random.randint returns where it is called and whether
\* each backend call that is made succeeds.
Run(s, button, nm, diff, g) ==
    LET mx == max_num(diff)
        f0 == [ss |-> session_state[s], sheet |-> sheet, cache |-> cache,
               msgs |-> {}, shown |-> 0, drawn |-> <<>>]
        changed == DifficultyChanged(f0.ss, mx)
    IN  \E d1 \in (IF changed THEN 1..mx ELSE {1}) :
        LET t == now
            ss1 == DifficultyCheck(f0, mx, d1).ss
            hit == Hits(ss1, button, nm, g)
        IN  \E d2 \in (IF button = "restart" \/ hit THEN 1..mx ELSE {1}),
               append_ok \in (IF hit THEN BOOLEAN ELSE {TRUE}),
               read_ok \in (IF hit \/ ~CacheHit(cache, t) THEN BOOLEAN ELSE {TRUE}) :
            \E r \in {Script(f0.ss, sheet, cache, nm, diff, g, button, t,
                            d1, d2, append_ok, read_ok)} :
                /\ Len(r.sheet) <= MaxRows + Cardinality(DOMAIN session_state) - 1
                /\ r.ss.attempts <= AttemptsCap
                /\ now' = now
                /\ last_run' = [session |-> s, button |-> button, name |-> nm, guess |-> g,
                                msgs |-> r.msgs, shown |-> r.shown, drawn |-> r.drawn]
                /\ session_state' = [session_state EXCEPT ![s] = r.ss]
                /\ difficulty' = [difficulty EXCEPT ![s] = diff]
                /\ sheet' = r.sheet
                /\ cache' = r.cache
                /\ guesses' = [guesses EXCEPT ![s] =
                                  IF r.drawn # <<>> THEN 0
                                  ELSE IF Misses(ss1, button, nm, g) THEN @ + 1 ELSE @]

\* The page is opened: the first run of the script for the session, with the
\* widgets at their defaults.
Open(s) ==
    /\ ~Started(s)
    /\ Run(s, "none", <<>>, difficulty[s], 1)

\* The player edits the name or the guess field: a run with no button pressed, in
\* which no handler reads the two fields.
Rerun(s) ==
    /\ Started(s)
    /\ Run(s, "none", <<>>, difficulty[s], 1)

\* The player selects a difficulty.
ChooseDifficulty(s, diff) ==
    /\ Started(s)
    /\ Run(s, "none", <<>>, diff, 1)

\* The player clicks Restart Game.
ClickRestart(s) ==
    /\ Started(s)
    /\ Run(s, "restart", <<>>, difficulty[s], 1)

\* The player clicks Submit Guess with nm in the name field and g in the guess
\* field (min_value=1, max_value=max_num).
ClickSubmit(s, nm, g) ==
    /\ Started(s)
    /\ g \in 1..max_num(difficulty[s])
    /\ Run(s, "submit", nm, difficulty[s], g)

\* Time passes between two interactions.
Tick ==
    /\ now + TickStep <= MaxTime
    /\ now' = now + TickStep
    /\ UNCHANGED <<session_state, difficulty, sheet, cache, last_run, guesses>>

Next ==
    \/ \E s \in DOMAIN session_state : Open(s)
    \/ \E s \in DOMAIN session_state : Rerun(s)
    \/ \E s \in DOMAIN session_state, diff \in Difficulties : ChooseDifficulty(s, diff)
    \/ \E s \in DOMAIN session_state : ClickRestart(s)
    \/ \E s \in DOMAIN session_state, nm \in NameInputs, g \in 1..HardMax :
           ClickSubmit(s, nm, g)

\* The game at one instant: every run happens within the same second.
Spec == Init /\ [][Next]_vars

\* With the clock running a round is followed for ClockAttempts guesses.
WithinClockAttempts ==
    \A s \in DOMAIN session_state :
        Started(s) => session_state[s].attempts <= ClockAttempts

ClockNext ==
    \/ Tick
    \/ (\E s \in DOMAIN session_state : Open(s)) /\ WithinClockAttempts'
    \/ (\E s \in DOMAIN session_state : Rerun(s)) /\ WithinClockAttempts'
    \/ (\E s \in DOMAIN session_state, diff \in Difficulties : ChooseDifficulty(s, diff))
           /\ WithinClockAttempts'
    \/ (\E s \in DOMAIN session_state : ClickRestart(s)) /\ WithinClockAttempts'
    \/ (\E s \in DOMAIN session_state, nm \in NameInputs, g \in 1..HardMax :
           ClickSubmit(s, nm, g)) /\ WithinClockAttempts'

\* The game with the clock running.
SpecClock == Init /\ [][ClockNext]_vars

-----------------------------------------------------------------------------
(* Two player sessions, each with its own st.session_state, on one sheet and one
   cache.  A run of the script is one step: a session's run touches the shared
   sheet by the single append call of add_score and the single read call of
   load_leaderboard. *)

SharedSessions == {1, 2}

SharedInit ==
    /\ session_state = [s \in SharedSessions |-> EmptyDict]
    /\ difficulty = [s \in SharedSessions |-> "Easy"]
    /\ sheet \in InitSheets
    /\ cache = NoCache
    /\ now = 0
    /\ last_run = NoRun
    /\ guesses = [s \in SharedSessions |-> 0]

WithinSharedAttempts ==
    \A s \in DOMAIN session_state :
        Started(s) => session_state[s].attempts <= SharedAttempts

SharedNext ==
    \/ (\E s \in DOMAIN session_state : Open(s)) /\ WithinSharedAttempts'
    \/ (\E s \in DOMAIN session_state : Rerun(s)) /\ WithinSharedAttempts'
    \/ (\E s \in DOMAIN session_state, diff \in Difficulties : ChooseDifficulty(s, diff))
           /\ WithinSharedAttempts'
    \/ (\E s \in DOMAIN session_state : ClickRestart(s)) /\ WithinSharedAttempts'
    \/ (\E s \in DOMAIN session_state, nm \in NameInputs, g \in 1..HardMax :
           ClickSubmit(s, nm, g)) /\ WithinSharedAttempts'

\* The game played by two sessions in any interleaving of their runs.
SpecShared == SharedInit /\ [][SharedNext]_vars

-----------------------------------------------------------------------------
(* The leaderboard store on its own: add_score and load_leaderboard applied to
   sheets drawn from a bounded set. *)

\* Rows found in a sheet: well-formed ones and ones a person editing the sheet left
\* incomplete or non-numeric.
StoreRows ==
    { << <<"A">>, <<"5">>, <<"0", "0">> >>,
      << <<"B">>, <<"3">>, <<"1", "5">> >>,
      << <<"C">>, <<"3">>, <<"0", "0">> >>,
      << <<"A">>, <<"N", "/", "A">> >>,
      << <<"B">> >>,
      << >> }

RECURSIVE SeqsUpTo(_, _)
SeqsUpTo(S, n) ==
    IF n = 0 THEN {<<>>}
    ELSE LET shorter == SeqsUpTo(S, n - 1)
         IN  shorter \cup {Append(q, x) : q \in {r \in shorter : Len(r) = n - 1}, x \in S}

\* A new sheet, or a header row followed by up to StoreInitRows rows.
StoreSheets ==
    {<<>>} \cup {<<HeaderRow>> \o rows : rows \in SeqsUpTo(StoreRows, StoreInitRows)}

StoreInit ==
    /\ session_state = [s \in Sessions |-> EmptyDict]
    /\ difficulty = [s \in Sessions |-> "Easy"]
    /\ sheet \in StoreSheets
    /\ cache = NoCache
    /\ now = 0
    /\ last_run = NoRun
    /\ guesses = [s \in Sessions |-> 0]

\* load_leaderboard(limit=n) with nothing cached.
TopN(n, read_ok) ==
    /\ cache' = [present |-> TRUE, value |-> LoadLeaderboard(sheet, n, read_ok),
                 fetchedAt |-> now]
    /\ UNCHANGED <<session_state, difficulty, sheet, now, last_run, guesses>>

\* add_score(nm, attempts), load_leaderboard.clear() and load_leaderboard(limit=n),
\* as lines 181, 182 and 194 follow each other.
AppendThenTopN(nm, attempts, n, append_ok, read_ok) ==
    /\ Len(sheet) < StoreMaxRows
    /\ sheet' = add_score(sheet, nm, attempts, now, append_ok)
    /\ cache' = [present |-> TRUE, value |-> LoadLeaderboard(sheet', n, read_ok),
                 fetchedAt |-> now]
    /\ UNCHANGED <<session_state, difficulty, now, last_run, guesses>>

\* The names and attempt counts appended in the store specification.
StoreNames == {<<"A">>}
StoreAttempts == {3, 5}

StoreNext ==
    \/ \E n \in 0..StoreMaxRows, read_ok \in BOOLEAN : TopN(n, read_ok)
    \/ \E nm \in StoreNames, attempts \in StoreAttempts, n \in 0..StoreMaxRows,
          append_ok \in BOOLEAN, read_ok \in BOOLEAN :
           AppendThenTopN(nm, attempts, n, append_ok, read_ok)

SpecStore == StoreInit /\ [][StoreNext]_vars

-----------------------------------------------------------------------------
(* Vocabulary of the claims *)

\* Reading of the session's dict.
Attempts(s) == session_state[s].attempts
Secret(s) == session_state[s].number_to_guess
Limit(s) == session_state[s].max_attempts

\* The round is still open / has used up its tries.
Active(s) == Started(s) /\ Attempts(s) < Limit(s)
Exhausted(s) == Started(s) /\ Attempts(s) >= Limit(s)

\* A name with nothing but whitespace in it.
Blank(nm) == \A i \in 1..Len(nm) : nm[i] \in Whitespace

\* x is nm without its leading and trailing whitespace.
IsTrimOf(x, nm) ==
    /\ x = <<>> \/ (x[1] \notin Whitespace /\ x[Len(x)] \notin Whitespace)
    /\ \E i \in 0..Len(nm) :
        /\ i + Len(x) <= Len(nm)
        /\ \A k \in 1..i : nm[k] \in Whitespace
        /\ \A k \in 1..Len(x) : nm[i + k] = x[k]
        /\ \A k \in (i + Len(x) + 1)..Len(nm) : nm[k] \in Whitespace

HasHeader(sh) == Len(sh) > 0 /\ sh[1] = HeaderRow

\* The score records a sheet holds: every row that is not the header.
StoredRecords(sh) ==
    LET rows == IF HasHeader(sh) THEN Tail(sh) ELSE sh
    IN  [i \in 1..Len(rows) |-> DecodeRow(rows[i])]

\* sh2 is sh with exactly one row appended, the record (nm, attempts).
OneRecordAppended(sh, sh2, nm, attempts) ==
    /\ Len(sh2) = Len(sh) + 1
    /\ SubSeq(sh2, 1, Len(sh)) = sh
    /\ Len(sh2[Len(sh2)]) = 3
    /\ IsTrimOf(DecodeRow(sh2[Len(sh2)]).name, nm)
    /\ DecodeRow(sh2[Len(sh2)]).attempts = attempts

\* The step is session s submitting the guess g under the name nm.
Submits(s, nm, g) ==
    /\ now' = now
    /\ last_run'.session = s /\ last_run'.button = "submit"
    /\ last_run'.name = nm /\ last_run'.guess = g

\* The step is session s clicking Restart Game.
Restarts(s) ==
    now' = now /\ last_run'.session = s /\ last_run'.button = "restart"

\* The step is a run of session s with no button pressed and diff selected.
RunsWithoutButton(s, diff) ==
    /\ now' = now
    /\ last_run'.session = s /\ last_run'.button = "none"
    /\ difficulty'[s] = diff

\* Every step of a session is the step its run records, and the other way round.
StepsAreRecorded ==
    [][\A s \in DOMAIN session_state :
        /\ \A nm \in NameInputs, g \in 1..HardMax :
               ClickSubmit(s, nm, g) <=> Submits(s, nm, g)
        /\ ClickRestart(s) <=> Restarts(s)
        /\ \A diff \in Difficulties :
               (Open(s) /\ diff = difficulty[s]) \/ (Rerun(s) /\ diff = difficulty[s])
                   \/ ChooseDifficulty(s, diff)
               <=> RunsWithoutButton(s, diff)]_vars

\* The run drew a new number to guess for session s and started the count again.
FreshRound(s) ==
    /\ last_run'.drawn # <<>>
    /\ session_state'[s].number_to_guess = last_run'.drawn[Len(last_run'.drawn)]
    /\ session_state'[s].number_to_guess \in 1..session_state[s].last_max_num
    /\ session_state'[s].attempts = 0

\* res is the first n of recs in the canonical order: ascending attempts, ties by
\* ascending timestamp.
IsTopN(res, recs, n) ==
    LET m == IF n < Len(recs) THEN n ELSE Len(recs)
    IN  /\ Len(res) = m
        /\ \A i, j \in 1..m : i < j => ~KeyLess(res[j], res[i])
        /\ \E f \in [1..m -> 1..Len(recs)] :
            /\ \A i, j \in 1..m : i # j => f[i] # f[j]
            /\ \A i \in 1..m : res[i] = recs[f[i]]
            /\ \A k \in 1..Len(recs) :
                (\A i \in 1..m : f[i] # k) => \A i \in 1..m : ~KeyLess(recs[k], res[i])

\* The record at position k of recs is among the first n in the canonical order
\* however ties are placed.
RanksWithin(recs, k, n) ==
    Cardinality({i \in 1..Len(recs) : i # k /\ ~KeyLess(recs[k], recs[i])}) < n

-----------------------------------------------------------------------------
(* Claims *)

\* C1: in every reachable state the attempt counter of a session satisfies
\* 0 <= attempts <= attemptLimit (10).
AttemptsWithinLimit ==
    \A s \in DOMAIN session_state :
        Started(s) => 0 <= Attempts(s) /\ Attempts(s) <= max_attempts

\* C2: once a round is exhausted, a further guess changes neither attempts nor the
\* number to guess, is no win, appends no record and leaves the round exhausted.
ExhaustedRejectsGuess ==
    [][\A s \in DOMAIN session_state, nm \in NameInputs, g \in 1..HardMax :
        Exhausted(s) /\ Submits(s, nm, g)
        => /\ session_state'[s].attempts = Attempts(s)
           /\ session_state'[s].number_to_guess = Secret(s)
           /\ "correct" \notin last_run'.msgs
           /\ sheet' = sheet
           /\ Exhausted(s)']_vars

\* C3 (as stated): a correct guess in an active round with a non-empty name appends
\* exactly one record, with the trimmed name and the attempt count including the
\* winning guess, and leaves a fresh round.
WinAppendsRecord ==
    [][\A s \in DOMAIN session_state, nm \in NameInputs, g \in 1..HardMax :
        Active(s) /\ ~Blank(nm) /\ g = Secret(s) /\ Submits(s, nm, g)
        => /\ OneRecordAppended(sheet, sheet', nm, Attempts(s) + 1)
           /\ FreshRound(s)]_vars

\* C3 (amended): a correct guess in an active round with a non-empty name leaves a
\* fresh round and appends exactly one record, with the trimmed name and the attempt
\* count including the winning guess, unless the backend append fails: then the
\* failure is displayed and no record is appended.
WinAppendsRecordUnlessBackendFails ==
    [][\A s \in DOMAIN session_state, nm \in NameInputs, g \in 1..HardMax :
        Active(s) /\ ~Blank(nm) /\ g = Secret(s) /\ Submits(s, nm, g)
        => /\ "correct" \in last_run'.msgs
           /\ IF "append_failed" \in last_run'.msgs
              THEN sheet' = sheet
              ELSE OneRecordAppended(sheet, sheet', nm, Attempts(s) + 1)
           /\ FreshRound(s)]_vars

\* A win on the third guess has been recorded and the round has started again.
WinRecorded ==
    \E s \in DOMAIN session_state :
        /\ Started(s) /\ Attempts(s) = 0
        /\ last_run.msgs = {"correct"}
        /\ Len(sheet) = 2 /\ DecodeRow(sheet[2]) = [name |-> <<"A">>, attempts |-> 3,
                                                   timestamp |-> isoformat(now)]

\* C4: a run with no button pressed in which the selected difficulty is the
\* session's current one leaves the number to guess, attempts and the attempt limit
\* as they were; a run with no button pressed changes them only on first use or
\* when the selected range differs.
SameDifficultyKeepsSession ==
    [][\A s \in DOMAIN session_state, diff \in Difficulties :
        /\ Started(s) /\ max_num(diff) = session_state[s].last_max_num
              /\ RunsWithoutButton(s, diff)
           => session_state'[s] = session_state[s]
        /\ RunsWithoutButton(s, diff) /\ session_state'[s] # session_state[s]
           => ~Started(s) \/ max_num(diff) # session_state[s].last_max_num]_vars

\* A round in progress was shown again without a button pressed and without a reset.
RerunInProgress ==
    \E s \in DOMAIN session_state :
        Started(s) /\ Attempts(s) = 3 /\ last_run.msgs = {} /\ last_run.drawn = <<>>

\* C5 (as stated): a guess submitted with a blank name is answered with the
\* validation error and changes neither the session, the sheet nor the cached
\* leaderboard.
BlankNameChangesNothing ==
    [][\A s \in DOMAIN session_state, nm \in NameInputs, g \in 1..HardMax :
        Blank(nm) /\ Submits(s, nm, g)
        => /\ "name_required" \in last_run'.msgs
           /\ session_state' = session_state
           /\ sheet' = sheet
           /\ cache'.present = cache.present /\ cache'.value = cache.value]_vars

\* C5 (amended): a guess submitted with a blank name is answered with the validation
\* error and changes neither the session nor the sheet; the cache entry is kept
\* while it is younger than 30 seconds, and an expired entry is replaced by the
\* leaderboard read that ends the run.
BlankNameKeepsSessionAndStore ==
    [][\A s \in DOMAIN session_state, nm \in NameInputs, g \in 1..HardMax :
        Blank(nm) /\ Submits(s, nm, g)
        => /\ "name_required" \in last_run'.msgs
           /\ session_state' = session_state
           /\ sheet' = sheet
           /\ IF cache.present /\ now - cache.fetchedAt < TTL
              THEN cache' = cache
              ELSE cache'.present /\ cache'.fetchedAt = now]_vars

\* The validation error is on display in a round with a guess already counted.
NameErrorShown ==
    \E s \in DOMAIN session_state :
        Started(s) /\ Attempts(s) = 1 /\ "name_required" \in last_run.msgs

\* C6: of ten consecutive non-matching guesses of a round, the tenth and no earlier
\* one is answered with out of tries and the number to guess; none of them appends
\* a record.
TenthMissExhausts ==
    [][\A s \in DOMAIN session_state, nm \in NameInputs, g \in 1..HardMax :
        /\ Started(s) /\ ~Blank(nm) /\ g # Secret(s) /\ guesses[s] < max_attempts
        /\ Submits(s, nm, g)
        => /\ guesses'[s] = guesses[s] + 1
           /\ ("out_of_tries" \in last_run'.msgs) = (guesses'[s] = max_attempts)
           /\ last_run'.shown = (IF guesses'[s] = max_attempts THEN Secret(s) ELSE 0)
           /\ session_state'[s].number_to_guess = Secret(s)
           /\ "correct" \notin last_run'.msgs
           /\ sheet' = sheet]_vars

\* The tenth non-matching guess of a round was just answered.
OutOfTriesShown ==
    \E s \in DOMAIN session_state :
        /\ guesses[s] = max_attempts
        /\ "out_of_tries" \in last_run.msgs
        /\ last_run.shown = Secret(s)

\* C7 (as stated): a turn that fails, be it on the blank name or on the backend
\* append of a winning guess, leaves the session, the sheet and the cache as they
\* were before the turn.
FailedTurnChangesNothing ==
    [][\A s \in DOMAIN session_state, nm \in NameInputs, g \in 1..HardMax :
        /\ Submits(s, nm, g)
        /\ "name_required" \in last_run'.msgs \/ "append_failed" \in last_run'.msgs
        => /\ session_state' = session_state
           /\ sheet' = sheet
           /\ cache' = cache]_vars

\* C7 (amended): a turn that fails on the blank name changes neither the session nor
\* the sheet and keeps a cache entry younger than 30 seconds.  A winning guess whose
\* backend append fails writes nothing to the sheet and is still a win: the failure
\* is displayed, a fresh round starts and the cache entry is dropped and read again.
FailedTurnEffects ==
    [][\A s \in DOMAIN session_state, nm \in NameInputs, g \in 1..HardMax :
        /\ Submits(s, nm, g) /\ "name_required" \in last_run'.msgs
           => /\ session_state' = session_state
              /\ sheet' = sheet
              /\ (cache.present /\ now - cache.fetchedAt < TTL) => cache' = cache
        /\ Submits(s, nm, g) /\ "append_failed" \in last_run'.msgs
           => /\ sheet' = sheet
              /\ ~Blank(nm) /\ g = Secret(s)
              /\ "correct" \in last_run'.msgs
              /\ FreshRound(s)
              /\ cache'.present /\ cache'.fetchedAt = now]_vars

\* A win on the second guess was answered with the failure of the backend append.
AppendFailureShown ==
    \E s \in DOMAIN session_state :
        /\ last_run.session = s /\ last_run.button = "submit"
        /\ "append_failed" \in last_run.msgs
        /\ guesses[s] = 0 /\ Attempts(s) = 0
        /\ sheet = <<HeaderRow>>

\* C8: a successful append followed by a read of the top n with nothing cached
\* lists the appended record whenever it ranks within the top n, on every sheet, the
\* sheet without any row included.
AppendedRecordIsListed ==
    [][\A nm \in StoreNames, a \in StoreAttempts, n \in 0..StoreMaxRows :
        AppendThenTopN(nm, a, n, TRUE, TRUE)
        => LET recs == StoredRecords(sheet')
               k == Len(recs)
           IN  /\ k > 0 /\ recs[k].name = nm /\ recs[k].attempts = a
               /\ RanksWithin(recs, k, n)
                  => \E i \in 1..Len(cache'.value) : cache'.value[i] = recs[k]]_vars

\* C9: once the store has been read or appended to, the first row of the sheet is
\* the header row, never a score record.
HeaderBeforeUse == cache.present => HasHeader(sheet)

\* C10: a successful read of the top n returns the first n of all stored records in
\* the canonical order, and so at most n.
TopNIsSortedPrefix ==
    [][\A n \in 0..StoreMaxRows :
        /\ TopN(n, TRUE) => IsTopN(cache'.value, StoredRecords(sheet), n)
        /\ (\E nm \in StoreNames, a \in StoreAttempts, append_ok \in BOOLEAN :
               AppendThenTopN(nm, a, n, append_ok, TRUE))
           => IsTopN(cache'.value, StoredRecords(sheet'), n)]_vars

\* On a sheet that starts with the header row the read of C10 is the sorted prefix.
TopNIsSortedPrefixUnderHeader ==
    [][\A n \in 0..StoreMaxRows :
        HasHeader(sheet) /\ TopN(n, TRUE)
        => IsTopN(cache'.value, StoredRecords(sheet), n)]_vars

\* The step is a run of the script by session s.
Runs(s) == now' = now /\ last_run'.session = s

\* The view lists the record stored last whenever it ranks within the first
\* TopLimit however ties are placed.
ListsNewest(view, recs) ==
    Len(recs) > 0 /\ RanksWithin(recs, Len(recs), TopLimit)
    => \E i \in 1..Len(view) : view[i] = recs[Len(recs)]

\* C11: a run that appends a record reads the leaderboard from the backend in the
\* same run, and the view of that run and of every later run of any session lists
\* the appended record if it ranks in the top 10.
AppendIsShownAtOnce ==
    [][\A s \in DOMAIN session_state :
        Runs(s)
        => /\ Len(sheet') > Len(sheet) => cache'.present /\ cache'.fetchedAt = now
           /\ ListsNewest(cache'.value, StoredRecords(sheet'))]_vars

\* C12: a backend read that fails leaves no cache entry of its own: after the run
\* the cache holds what it held before or nothing.
FailedReadIsNotCached ==
    [][\A s \in DOMAIN session_state :
        Runs(s) /\ "read_failed" \in last_run'.msgs
        => cache' = cache \/ ~cache'.present]_vars

\* What a row is to decode to: a missing name or timestamp is the empty text, a
\* missing attempts cell or one that is not the text of a number counts as 0.
Decoded(r) ==
    [name |-> IF Len(r) >= 1 THEN r[1] ELSE <<>>,
     attempts |-> IF Len(r) >= 2 /\ \E v \in 0..99 : str(v) = r[2]
                  THEN CHOOSE v \in 0..99 : str(v) = r[2]
                  ELSE 0,
     timestamp |-> IF Len(r) >= 3 THEN r[3] ELSE <<>>]

\* a holds the elements of b, each as often as b, in some order.
IsPermutationOf(a, b) ==
    /\ Len(a) = Len(b)
    /\ \E f \in [1..Len(b) -> 1..Len(b)] :
        /\ \A i, j \in 1..Len(b) : i # j => f[i] # f[j]
        /\ \A i \in 1..Len(b) : a[f[i]] = b[i]

\* C13: a successful read of all rows below the header returns every one of them
\* decoded, the short and the non-numeric ones included: missing or non-numeric
\* attempts as 0, a missing name or timestamp as the empty text.
DecodingNeverFails ==
    [][\A n \in 0..StoreMaxRows :
        TopN(n, TRUE) /\ HasHeader(sheet) /\ n >= Len(sheet) - 1
        => IsPermutationOf(cache'.value,
                           [i \in 1..(Len(sheet) - 1) |-> Decoded(sheet[i + 1])])]_vars

\* A read returned a well-formed record next to one without a number and one
\* without any cell.
MalformedRowsListed ==
    /\ cache.present /\ Len(cache.value) = 3
    /\ \E i \in 1..3 : cache.value[i] = [name |-> <<"A">>, attempts |-> 0, timestamp |-> <<>>]
    /\ \E i \in 1..3 : cache.value[i] = [name |-> <<>>, attempts |-> 0, timestamp |-> <<>>]
    /\ \E i \in 1..3 : cache.value[i] = [name |-> <<"C">>, attempts |-> 3,
                                        timestamp |-> <<"0", "0">>]

\* C14: in every reachable state the number to guess of a started session lies in
\* 1..max_num of the difficulty the session has selected, which is the range the
\* session was last drawn for.
SecretWithinRange ==
    \A s \in DOMAIN session_state :
        Started(s)
        => /\ session_state[s].last_max_num = max_num(difficulty[s])
           /\ Secret(s) \in 1..max_num(difficulty[s])

\* After a recorded win the player changed the difficulty from Hard to Easy and a
\* number was drawn for the Easy range.
SwitchedToEasy ==
    \E s \in DOMAIN session_state :
        /\ Started(s) /\ difficulty[s] = "Easy"
        /\ last_run.session = s /\ last_run.button = "none" /\ Len(last_run.drawn) = 1
        /\ Len(sheet) = 2

\* C15: with two sessions taking turns in any order, a win whose append succeeds
\* adds exactly one record below the rows the sheet held, every other run leaves
\* the sheet as it was, and no run of one session changes the dict or the difficulty
\* of the other.
SessionsShareOnlyTheStore ==
    [][\A s \in DOMAIN session_state :
        Runs(s)
        => /\ \A o \in (DOMAIN session_state) \ {s} :
                  session_state'[o] = session_state[o] /\ difficulty'[o] = difficulty[o]
           /\ IF "correct" \in last_run'.msgs /\ "append_failed" \notin last_run'.msgs
              THEN OneRecordAppended(sheet, sheet', last_run'.name, Attempts(s) + 1)
              ELSE sheet' = sheet]_vars

\* Session 2 won and its record is the second of the sheet, while session 1 is in
\* the middle of a round.
SecondSessionWon ==
    /\ DOMAIN session_state = SharedSessions
    /\ Started(1) /\ Attempts(1) = 1
    /\ last_run.session = 2 /\ last_run.msgs = {"correct"}
    /\ Len(sheet) = 3

\* C16: an accepted guess in an active round that is below the number to guess is
\* answered too low, one above it too high, never both and never as a win; attempts
\* grows by exactly 1, the number to guess stays and no record is appended.
MissIsTooLowOrTooHigh ==
    [][\A s \in DOMAIN session_state, nm \in NameInputs, g \in 1..HardMax :
        Active(s) /\ ~Blank(nm) /\ g # Secret(s) /\ Submits(s, nm, g)
        => /\ ("too_low" \in last_run'.msgs) = (g < Secret(s))
           /\ ("too_high" \in last_run'.msgs) = (g > Secret(s))
           /\ "correct" \notin last_run'.msgs
           /\ session_state'[s].attempts = Attempts(s) + 1
           /\ session_state'[s].number_to_guess = Secret(s)
           /\ sheet' = sheet]_vars

\* The second guess of a round was above the number to guess and answered too high.
TooHighShown ==
    \E s \in DOMAIN session_state :
        /\ Started(s) /\ Attempts(s) = 2
        /\ last_run.session = s /\ last_run.msgs = {"too_high"}
        /\ last_run.guess > Secret(s)

\* C17: Restart Game, in an active and in an exhausted round alike, sets attempts
\* to 0 and draws a number to guess in 1..max_num, and leaves the range, the
\* attempt limit and the sheet as they were.
RestartStartsFreshRound ==
    [][\A s \in DOMAIN session_state :
        Started(s) /\ Restarts(s)
        => /\ FreshRound(s)
           /\ "restarted" \in last_run'.msgs
           /\ session_state'[s].last_max_num = session_state[s].last_max_num
           /\ session_state'[s].max_attempts = Limit(s)
           /\ difficulty'[s] = difficulty[s]
           /\ sheet' = sheet]_vars

\* Restart Game was clicked after a win had been recorded: the count is 0 and the
\* record is still in the sheet.
RestartedAfterWin ==
    \E s \in DOMAIN session_state :
        /\ last_run.session = s /\ last_run.button = "restart"
        /\ "restarted" \in last_run.msgs
        /\ Attempts(s) = 0 /\ Len(last_run.drawn) = 1
        /\ Len(sheet) = 2

\* C18: every record in the sheet carries an attempt count in 1..attemptLimit (10).
RecordsWithinLimit ==
    \A i \in 1..Len(StoredRecords(sheet)) :
        StoredRecords(sheet)[i].attempts \in 1..max_attempts

\* C19 (as stated): a correct guess that is the tenth of its round is a win and not
\* out of tries: a record with 10 attempts is appended and a fresh round starts.
LastAttemptWin ==
    [][\A s \in DOMAIN session_state, nm \in NameInputs, g \in 1..HardMax :
        /\ Started(s) /\ Attempts(s) + 1 = Limit(s)
        /\ ~Blank(nm) /\ g = Secret(s) /\ Submits(s, nm, g)
        => /\ "correct" \in last_run'.msgs
           /\ "out_of_tries" \notin last_run'.msgs
           /\ OneRecordAppended(sheet, sheet', nm, Limit(s))
           /\ FreshRound(s)]_vars

\* C19 (amended): a correct guess that is the tenth of its round is a win and not
\* out of tries, and a fresh round starts; a record with 10 attempts is appended
\* unless the backend append fails: then the failure is displayed and no record is
\* appended.
LastAttemptWinUnlessBackendFails ==
    [][\A s \in DOMAIN session_state, nm \in NameInputs, g \in 1..HardMax :
        /\ Started(s) /\ Attempts(s) + 1 = Limit(s)
        /\ ~Blank(nm) /\ g = Secret(s) /\ Submits(s, nm, g)
        => /\ "correct" \in last_run'.msgs
           /\ "out_of_tries" \notin last_run'.msgs
           /\ IF "append_failed" \in last_run'.msgs
              THEN sheet' = sheet
              ELSE OneRecordAppended(sheet, sheet', nm, Limit(s))
           /\ FreshRound(s)
           /\ Active(s)']_vars

\* A win on the tenth guess has been recorded with 10 attempts.
TenthGuessWinRecorded ==
    \E s \in DOMAIN session_state :
        /\ Started(s) /\ Attempts(s) = 0
        /\ last_run.session = s /\ last_run.msgs \cap {"correct", "out_of_tries"} = {"correct"}
        /\ Len(sheet) = 2 /\ DecodeRow(sheet[2]).attempts = max_attempts

====
